---- MODULE Spec2Model ----
(***************************************************************************)
(* Context Builder (src/context_builder/app.py): ignore-rule matching,     *)
(* the filtered directory scan, the project-tree diagram, the document     *)
(* serializer and the debounced preview update.                            *)
(*                                                                         *)
(* Strings are sequences of one-character strings, so that basename,       *)
(* fnmatch, sorting and joining are computed character by character.       *)
(***************************************************************************)
EXTENDS Integers, Sequences, FiniteSets, TLC

VARIABLES
    ig,             \* harness of should_ignore: [rules, path, isdir, verdict]
    fs,             \* the file system under the project root (the root's node)
    current_dir,    \* ContextBuilder.current_dir (<<>> is None)
    widgets,        \* format_combo and the four check boxes of the toolbar
    file_model,     \* FileTreeModel: ignore_hidden, use_gitignore, gitignore_rules, items
    checked,        \* paths of the items whose check state is Checked
    update_timer,   \* ContextBuilder.update_timer: [active, remaining]
    preview,        \* what update_preview_and_tokens last showed: [kind, text, tokens]
    tiktoken,       \* what the tokenizer does (see estimate_tokens)
    go,             \* harness of generate_output: [paths, called, at, raised, text, rows]
    fn,             \* harness of add_line_numbers and estimate_tokens: [op, text, tk, out, count]
    hist            \* history: events so far, the current burst, the last call

vars == <<ig, fs, current_dir, widgets, file_model, checked, update_timer, preview,
          tiktoken, go, fn, hist>>
appvars == <<fs, current_dir, widgets, file_model, checked, update_timer, preview,
             tiktoken, hist>>

(***************************************************************************)
(* Characters and strings                                                  *)
(***************************************************************************)

\* Code point of a character (Python compares str by code point).
Ord(c) ==
    CASE c = "\n" -> 10
      [] c = " "  -> 32
      [] c = "!"  -> 33
      [] c = "#"  -> 35
      [] c = "&"  -> 38
      [] c = "*"  -> 42
      [] c = "."  -> 46
      [] c = "/"  -> 47
      [] c = ";"  -> 59
      [] c = "<"  -> 60
      [] c = ">"  -> 62
      [] c = "?"  -> 63
      [] c = "A"  -> 65
      [] c = "B"  -> 66
      [] c = "a"  -> 97
      [] c = "b"  -> 98
      [] c = "d"  -> 100
      [] c = "e"  -> 101
      [] c = "g"  -> 103
      [] c = "h"  -> 104
      [] c = "i"  -> 105
      [] c = "l"  -> 108
      [] c = "n"  -> 110
      [] c = "o"  -> 111
      [] c = "p"  -> 112
      [] c = "r"  -> 114
      [] c = "t"  -> 116
      [] c = "x"  -> 120
      [] c = "y"  -> 121
      [] OTHER    -> 200

\* str.lower() on one character.
LowerChar(c) ==
    CASE c = "A" -> "a"
      [] c = "B" -> "b"
      [] OTHER   -> c

Lower(s) == [i \in 1..Len(s) |-> LowerChar(s[i])]

\* s < t for Python str: lexicographic by code point, a proper prefix first.
RECURSIVE StrLess(_, _)
StrLess(s, t) ==
    IF t = <<>> THEN FALSE
    ELSE IF s = <<>> THEN TRUE
    ELSE IF Head(s) = Head(t) THEN StrLess(Tail(s), Tail(t))
    ELSE Ord(Head(s)) < Ord(Head(t))

StartsWith(s, c) == s # <<>> /\ Head(s) = c
EndsWith(s, c) == s # <<>> /\ s[Len(s)] = c
Contains(s, c) == \E i \in 1..Len(s) : s[i] = c

\* rule.rstrip('/')
RECURSIVE RStrip(_, _)
RStrip(s, c) ==
    IF EndsWith(s, c) THEN RStrip(SubSeq(s, 1, Len(s) - 1), c) ELSE s

\* str.split(sep) for a one-character separator.
RECURSIVE SplitOn(_, _)
SplitOn(s, c) ==
    IF ~Contains(s, c) THEN <<s>>
    ELSE LET i == CHOOSE k \in 1..Len(s) :
                      s[k] = c /\ \A j \in 1..(k - 1) : s[j] # c
         IN  <<SubSeq(s, 1, i - 1)>> \o SplitOn(SubSeq(s, i + 1, Len(s)), c)

\* sep.join(parts)
RECURSIVE Join(_, _)
Join(parts, sep) ==
    IF parts = <<>> THEN <<>>
    ELSE IF Len(parts) = 1 THEN parts[1]
    ELSE parts[1] \o sep \o Join(Tail(parts), sep)

\* os.path.basename: what follows the last '/'.
Basename(p) ==
    LET parts == SplitOn(p, "/") IN parts[Len(parts)]

\* os.path.normpath on an absolute POSIX path: empty and '.' components are
\* dropped and '..' removes the component before it.
RECURSIVE NormComponents(_, _)
NormComponents(parts, acc) ==
    IF parts = <<>> THEN acc
    ELSE LET c == Head(parts) IN
         IF c = <<>> \/ c = <<".">> THEN NormComponents(Tail(parts), acc)
         ELSE IF c = <<".", ".">>
              THEN NormComponents(Tail(parts),
                       IF acc = <<>> THEN acc ELSE SubSeq(acc, 1, Len(acc) - 1))
              ELSE NormComponents(Tail(parts), Append(acc, c))

NormPath(p) == <<"/">> \o Join(NormComponents(SplitOn(p, "/"), <<>>), <<"/">>)

\* os.path.join(path, entry)
PathJoin(p, name) == IF EndsWith(p, "/") THEN p \o name ELSE p \o <<"/">> \o name

\* fnmatch.fnmatch on POSIX (case-sensitive): '*' matches any run of
\* characters, '/' included, '?' any one character.
RECURSIVE FnMatch(_, _)
FnMatch(s, pat) ==
    IF pat = <<>> THEN s = <<>>
    ELSE IF Head(pat) = "*"
         THEN FnMatch(s, Tail(pat)) \/ (s # <<>> /\ FnMatch(Tail(s), pat))
         ELSE /\ s # <<>>
              /\ (Head(pat) = "?" \/ Head(pat) = Head(s))
              /\ FnMatch(Tail(s), Tail(pat))

(***************************************************************************)
(* should_ignore                                                           *)
(***************************************************************************)

\* A rule the loop skips: empty, or a comment.
RuleSkipped(rule) == rule = <<>> \/ StartsWith(rule, "#")

RuleNegating(rule) == StartsWith(rule, "!")

\* The rule with its leading '!' removed.
RulePattern(rule) == IF RuleNegating(rule) THEN Tail(rule) ELSE rule

\* The match test of one rule body; isdir is os.path.isdir(normalized_path).
RuleMatch(pat, path, isdir) ==
    IF EndsWith(pat, "/")
    THEN isdir /\ FnMatch(Basename(path), RStrip(pat, "/"))
    ELSE IF Contains(pat, "/")
         THEN FnMatch(NormPath(path), <<"*">> \o pat)
         ELSE FnMatch(Basename(path), pat)

\* One iteration of the loop over the rules; st = [ignored, negated_match].
IgnoreStepLastWins(st, rule, path, isdir) ==
    IF RuleSkipped(rule) \/ ~RuleMatch(RulePattern(rule), path, isdir) THEN st
    ELSE IF RuleNegating(rule)
         THEN [ignored |-> FALSE, negated_match |-> TRUE]
         ELSE [st EXCEPT !.ignored = TRUE]

IgnoreStepNoClear(st, rule, path, isdir) ==
    IF RuleSkipped(rule) \/ ~RuleMatch(RulePattern(rule), path, isdir) THEN st
    ELSE IF RuleNegating(rule)
         THEN [st EXCEPT !.negated_match = TRUE]
         ELSE IF ~st.negated_match THEN [st EXCEPT !.ignored = TRUE] ELSE st

IgnoreStep(st, rule, path, isdir) ==
    IF RuleSkipped(rule) \/ ~RuleMatch(RulePattern(rule), path, isdir) THEN st
    ELSE IF RuleNegating(rule)
         THEN [ignored |-> FALSE, negated_match |-> TRUE]
         ELSE IF ~st.negated_match THEN [st EXCEPT !.ignored = TRUE] ELSE st

RECURSIVE IgnoreLoop(_, _, _, _)
IgnoreLoop(st, rules, path, isdir) ==
    IF rules = <<>> THEN st
    ELSE IgnoreLoop(IgnoreStep(st, Head(rules), path, isdir), Tail(rules), path, isdir)

should_ignore(path, rules, isdir) ==
    IgnoreLoop([ignored |-> FALSE, negated_match |-> FALSE], rules, path, isdir).ignored

(***************************************************************************)
(* The file system.  A node is a file or a directory:                      *)
(*   kind     "file", "dir", or "none" for a path that does not exist      *)
(*   st       file: "ok", or "unreadable" (open() raises OSError);         *)
(*            dir: "ok", or how os.listdir fails: "perm" (PermissionError),*)
(*            "notfound" (FileNotFoundError), "oserror" (another OSError)  *)
(*   nul      file: offset (from 1) of its first null byte, 0 for none     *)
(*   content  file: its text as open(..., errors='replace').read() gives it*)
(*   entries  dir: <<[name, node], ...>> in the order os.listdir returns   *)
(***************************************************************************)

FileNode(st, nul, content) ==
    [kind |-> "file", st |-> st, nul |-> nul, content |-> content, entries |-> <<>>]

DirNode(st, entries) ==
    [kind |-> "dir", st |-> st, nul |-> 0, content |-> <<>>, entries |-> entries]

NoNode == [kind |-> "none", st |-> "ok", nul |-> 0, content |-> <<>>, entries |-> <<>>]

Root == <<"/", "r">>

\* The components of an absolute path below the root.
RelComponents(path) ==
    LET parts == NormComponents(SplitOn(path, "/"), <<>>)
    IN  IF parts # <<>> /\ Head(parts) = <<"r">> THEN Tail(parts) ELSE <<<<"?">>>>

RECURSIVE FindNode(_, _)
FindNode(node, comps) ==
    IF comps = <<>> THEN node
    ELSE IF node.kind # "dir" THEN NoNode
    ELSE LET hits == { i \in 1..Len(node.entries) : node.entries[i].name = Head(comps) }
         IN  IF hits = {} THEN NoNode
             ELSE FindNode(node.entries[CHOOSE i \in hits : TRUE].node, Tail(comps))

Lookup(f, path) == FindNode(f, RelComponents(path))

\* os.path.isdir, os.path.isfile
IsDir(f, path) == Lookup(f, path).kind = "dir"
IsFile(f, path) == Lookup(f, path).kind = "file"

\* os.listdir: [err, names]
ListDir(f, path) ==
    LET n == Lookup(f, path) IN
    IF n.kind = "none" THEN [err |-> "notfound", names |-> <<>>]
    ELSE IF n.kind = "file" THEN [err |-> "oserror", names |-> <<>>]
    ELSE IF n.st # "ok" THEN [err |-> n.st, names |-> <<>>]
    ELSE [err |-> "none", names |-> [i \in 1..Len(n.entries) |-> n.entries[i].name]]

BINARY_CHECK_CHUNK_SIZE == 1024

is_likely_binary_file_NoFailSafe(f, filepath) ==
    LET n == Lookup(f, filepath) IN
    n.kind = "file" /\ n.st # "unreadable"
        /\ n.nul # 0 /\ n.nul <= BINARY_CHECK_CHUNK_SIZE

\* A null byte among the first chunk_size bytes; True when open() fails.
is_likely_binary_file(f, filepath) ==
    LET n == Lookup(f, filepath) IN
    IF n.kind # "file" \/ n.st = "unreadable" THEN TRUE
    ELSE n.nul # 0 /\ n.nul <= BINARY_CHECK_CHUNK_SIZE

\* str.strip() of blanks and line ends.
RECURSIVE LStrip(_)
LStrip(s) == IF s # <<>> /\ Head(s) \in {" ", "\n"} THEN LStrip(Tail(s)) ELSE s

Strip(s) == LStrip(RStrip(RStrip(LStrip(s), "\n"), " "))

\* The lines a text file yields when iterated (line ends dropped here; a
\* line starting with '#' is recognised before stripping, as in the code).
FileLines(content) ==
    LET parts == SplitOn(content, "\n")
    IN  IF parts[Len(parts)] = <<>> THEN SubSeq(parts, 1, Len(parts) - 1) ELSE parts

RECURSIVE KeepRules(_)
KeepRules(lines) ==
    IF lines = <<>> THEN <<>>
    ELSE IF Strip(Head(lines)) # <<>> /\ ~StartsWith(Head(lines), "#")
         THEN <<Strip(Head(lines))>> \o KeepRules(Tail(lines))
         ELSE KeepRules(Tail(lines))

GitignoreName == <<".", "g", "i", "t", "i", "g", "n", "o", "r", "e">>

read_gitignore(f, directory_path) ==
    LET gitignore_path == PathJoin(directory_path, GitignoreName)
        n == Lookup(f, gitignore_path)
    IN  IF n.kind = "file" /\ n.st # "unreadable"
        THEN KeepRules(FileLines(n.content))
        ELSE <<>>

(***************************************************************************)
(* Sorting of siblings: key (not is_dir, name.lower()), stable.            *)
(***************************************************************************)

\* The names compared as they are, by code point.
SiblingBeforeCaseSensitive(x, y) ==
    \/ x.isdir /\ ~y.isdir
    \/ x.isdir = y.isdir /\ StrLess(x.name, y.name)

SiblingBefore(x, y) ==
    \/ x.isdir /\ ~y.isdir
    \/ x.isdir = y.isdir /\ StrLess(Lower(x.name), Lower(y.name))

\* x put into the sorted sequence s behind every element that is not after it.
RECURSIVE InsertSibling(_, _)
InsertSibling(x, s) ==
    IF s = <<>> THEN <<x>>
    ELSE IF SiblingBefore(x, Head(s)) THEN <<x>> \o s
    ELSE <<Head(s)>> \o InsertSibling(x, Tail(s))

RECURSIVE SortSiblings(_)
SortSiblings(s) ==
    IF s = <<>> THEN <<>>
    ELSE InsertSibling(s[Len(s)], SortSiblings(SubSeq(s, 1, Len(s) - 1)))

(***************************************************************************)
(* FileTreeModel._load_directory_recursive.  The result is [raised, items];*)
(* an item is [name, path, isdir, children].                               *)
(***************************************************************************)

\* The exceptions of os.listdir that the walk and the diagram catch.
ListErrorCaught(err) == err \in {"perm", "notfound"}

RECURSIVE LoadDir(_, _, _, _, _)
RECURSIVE LoadEntries(_, _, _, _, _, _, _)

\* Directories never left out, so that the walk goes into each of them.
EntrySkipped_FilesOnly(f, entry_name, full_path, is_dir, ignore_hidden, use_gitignore, rules) ==
    /\ ~is_dir
    /\ \/ ignore_hidden /\ StartsWith(entry_name, ".")
       \/ use_gitignore /\ should_ignore(full_path, rules, FALSE)
       \/ is_likely_binary_file(f, full_path)

\* Whether the walk leaves the entry out of the tree.
EntrySkipped(f, entry_name, full_path, is_dir, ignore_hidden, use_gitignore, rules) ==
    \/ ignore_hidden /\ StartsWith(entry_name, ".")
    \/ use_gitignore /\ should_ignore(full_path, rules, IsDir(f, NormPath(full_path)))
    \/ ~is_dir /\ is_likely_binary_file(f, full_path)

\* The entry's item once its own walk, sub, is done; then the other entries.
LoadRest(f, path, names, ignore_hidden, use_gitignore, rules, acc, full_path, is_dir, sub) ==
    IF sub.raised THEN [raised |-> TRUE, items |-> <<>>]
    ELSE LoadEntries(f, path, Tail(names), ignore_hidden, use_gitignore, rules,
                     Append(acc, [name |-> Head(names), path |-> full_path,
                                  isdir |-> is_dir, children |-> sub.items]))

LoadEntry(f, path, names, ignore_hidden, use_gitignore, rules, acc, full_path, is_dir) ==
    IF EntrySkipped(f, Head(names), full_path, is_dir, ignore_hidden, use_gitignore, rules)
    THEN LoadEntries(f, path, Tail(names), ignore_hidden, use_gitignore, rules, acc)
    ELSE LoadRest(f, path, names, ignore_hidden, use_gitignore, rules, acc, full_path, is_dir,
                  IF is_dir
                  THEN LoadDir(f, full_path, ignore_hidden, use_gitignore, rules)
                  ELSE [raised |-> FALSE, items |-> <<>>])

LoadEntries(f, path, names, ignore_hidden, use_gitignore, rules, acc) ==
    IF names = <<>> THEN [raised |-> FALSE, items |-> acc]
    ELSE LoadEntry(f, path, names, ignore_hidden, use_gitignore, rules, acc,
                   PathJoin(path, Head(names)), IsDir(f, PathJoin(path, Head(names))))

\* The rows of one level are appended in sorted order once its walk is done.
LoadSorted(r) ==
    IF r.raised THEN r ELSE [raised |-> FALSE, items |-> SortSiblings(r.items)]

LoadListed(f, path, ls, ignore_hidden, use_gitignore, rules) ==
    IF ls.err # "none"
    THEN [raised |-> ~ListErrorCaught(ls.err), items |-> <<>>]
    ELSE LoadSorted(LoadEntries(f, path, ls.names, ignore_hidden, use_gitignore, rules, <<>>))

LoadDir(f, path, ignore_hidden, use_gitignore, rules) ==
    LoadListed(f, path, ListDir(f, path), ignore_hidden, use_gitignore, rules)

\* The items of a (sub)tree, in display order, parents before children.
RECURSIVE Flatten(_)
Flatten(items) ==
    IF items = <<>> THEN <<>>
    ELSE <<Head(items)>> \o Flatten(Head(items).children) \o Flatten(Tail(items))

ItemPaths(items) == { Flatten(items)[i].path : i \in 1..Len(Flatten(items)) }

(***************************************************************************)
(* generate_project_tree.  The result is [raised, rows]; a row is          *)
(* [text, path]: the line of the diagram and the entry it stands for.      *)
(* The glyphs are written in ASCII: "L-- " is the last-sibling connector,  *)
(* "|-- " the other one, "|   " the continuation under a non-last sibling. *)
(***************************************************************************)

RECURSIVE TreeFilter(_, _, _, _, _, _)
RECURSIVE ProjectTree(_, _, _, _, _)
RECURSIVE TreeRows(_, _, _, _, _, _)

TreeSkipped(f, entry, full_path, ignore_hidden, rules) ==
    \/ ignore_hidden /\ StartsWith(entry, ".")
    \/ rules # <<>> /\ should_ignore(full_path, rules, IsDir(f, NormPath(full_path)))

TreeKept(f, entry, full_path, ignore_hidden, rules, acc) ==
    IF TreeSkipped(f, entry, full_path, ignore_hidden, rules) THEN acc
    ELSE Append(acc, [name |-> entry, path |-> full_path, isdir |-> IsDir(f, full_path)])

TreeFilter(f, path, names, ignore_hidden, rules, acc) ==
    IF names = <<>> THEN acc
    ELSE TreeFilter(f, path, Tail(names), ignore_hidden, rules,
                    TreeKept(f, Head(names), PathJoin(path, Head(names)),
                             ignore_hidden, rules, acc))

\* The row of an entry, the rows below it (sub) and the rows after it (rest).
RowsOf(row, sub, rest) ==
    IF sub.raised \/ rest.raised THEN [raised |-> TRUE, rows |-> <<>>]
    ELSE [raised |-> FALSE, rows |-> <<row>> \o sub.rows \o rest.rows]

TreeRow(f, e, is_last, prefix, ignore_hidden, rules, rest) ==
    RowsOf([text |-> prefix \o <<IF is_last THEN "L-- " ELSE "|-- ">> \o e.name,
            path |-> e.path],
           IF e.isdir
           THEN ProjectTree(f, e.path, prefix \o <<IF is_last THEN "    " ELSE "|   ">>,
                            ignore_hidden, rules)
           ELSE [raised |-> FALSE, rows |-> <<>>],
           rest)

TreeRows(f, entries, i, prefix, ignore_hidden, rules) ==
    IF i > Len(entries) THEN [raised |-> FALSE, rows |-> <<>>]
    ELSE TreeRow(f, entries[i], i = Len(entries), prefix, ignore_hidden, rules,
                 TreeRows(f, entries, i + 1, prefix, ignore_hidden, rules))

TreeListed(f, path, ls, prefix, ignore_hidden, rules) ==
    IF ls.err # "none"
    THEN [raised |-> ~ListErrorCaught(ls.err), rows |-> <<>>]
    ELSE TreeRows(f, SortSiblings(TreeFilter(f, path, ls.names, ignore_hidden, rules, <<>>)),
                  1, prefix, ignore_hidden, rules)

ProjectTree(f, path, prefix, ignore_hidden, rules) ==
    TreeListed(f, path, ListDir(f, path), prefix, ignore_hidden, rules)

generate_project_tree(f, path, ignore_hidden, rules) ==
    ProjectTree(f, path, <<>>, ignore_hidden, rules)

(***************************************************************************)
(* add_line_numbers and estimate_tokens                                    *)
(***************************************************************************)

DigitChar(d) ==
    CASE d = 0 -> "0" [] d = 1 -> "1" [] d = 2 -> "2" [] d = 3 -> "3" [] d = 4 -> "4"
      [] d = 5 -> "5" [] d = 6 -> "6" [] d = 7 -> "7" [] d = 8 -> "8" [] OTHER -> "9"

\* str(n) for n >= 0
RECURSIVE Digits(_)
Digits(n) == IF n < 10 THEN <<DigitChar(n)>> ELSE Digits(n \div 10) \o <<DigitChar(n % 10)>>

Spaces(n) == [i \in 1..n |-> " "]

\* content.splitlines(), for texts whose only line end is "\n"
SplitLines(content) == FileLines(content)

\* f'{i + 1:<{padding}} | {line}': the number, then blanks up to the width.
\* The blanks before the number instead.
NumberedLineRightAligned(i, padding, line) ==
    LET d == Digits(i)
    IN  Spaces(IF padding > Len(d) THEN padding - Len(d) ELSE 0) \o d
          \o <<" ", "|", " ">> \o line

NumberedLine(i, padding, line) ==
    LET d == Digits(i)
    IN  d \o Spaces(IF padding > Len(d) THEN padding - Len(d) ELSE 0)
          \o <<" ", "|", " ">> \o line

add_line_numbers(content) ==
    LET lines == SplitLines(content) IN
    IF lines = <<>> THEN <<>>
    ELSE LET padding == Len(Digits(Len(lines)))
         IN  Join([i \in 1..Len(lines) |-> NumberedLine(i, padding, lines[i])], <<"\n">>)

\* len(text): a text is a sequence of characters and of literal fragments
\* (several characters long) that the program writes in one piece.
RECURSIVE CharLen(_)
CharLen(text) == IF text = <<>> THEN 0 ELSE Len(Head(text)) + CharLen(Tail(text))

\* tk is what the tokenizer does: "unavailable" (the import failed),
\* "keyerror", "error" (it raises), or "ok"; its own count is not modelled
\* and stands as the number of fragments of the text.
\* The quotient rounded to the nearest whole number instead.
estimate_tokens_Rounded(text, tk) ==
    IF tk = "ok" THEN Len(text) ELSE (CharLen(text) + 2) \div 4

estimate_tokens(text, tk) ==
    IF tk = "ok" THEN Len(text) ELSE CharLen(text) \div 4

(***************************************************************************)
(* ContextBuilder.generate_output                                          *)
(***************************************************************************)

RECURSIVE ReplaceChar(_, _, _)
ReplaceChar(s, c, rep) ==
    IF s = <<>> THEN <<>>
    ELSE (IF Head(s) = c THEN rep ELSE <<Head(s)>>) \o ReplaceChar(Tail(s), c, rep)

\* The ampersands replaced last, after those of the entities are there.
escape_xml_AmpLast(text) ==
    ReplaceChar(ReplaceChar(ReplaceChar(text, "<", <<"&", "l", "t", ";">>),
                            ">", <<"&", "g", "t", ";">>),
                "&", <<"&", "a", "m", "p", ";">>)

escape_xml(text) ==
    ReplaceChar(ReplaceChar(ReplaceChar(text, "&", <<"&", "a", "m", "p", ";">>),
                            "<", <<"&", "l", "t", ";">>),
                ">", <<"&", "g", "t", ";">>)

RECURSIVE LStripChar(_, _)
LStripChar(s, c) == IF StartsWith(s, c) THEN LStripChar(Tail(s), c) ELSE s

\* os.path.splitext(p)[1]: from the last dot of the basename, unless only
\* dots precede it.
SplitextExt(p) ==
    LET b == Basename(p)
        dots == { i \in 1..Len(b) : b[i] = "." }
    IN  IF dots = {} THEN <<>>
        ELSE LET i == CHOOSE k \in dots : \A j \in dots : j <= k
             IN  IF \A j \in 1..(i - 1) : b[j] = "." THEN <<>>
                 ELSE SubSeq(b, i, Len(b))

\* EXT_TO_LANG.get(key, '')
EXT_TO_LANG(key) ==
    CASE key = <<"p", "y">> -> <<"python">>
      [] key = <<"c">> -> <<"c">>
      [] key = <<"c", "p", "p">> -> <<"cpp">>
      [] key = <<"j", "a", "v", "a">> -> <<"java">>
      [] key = <<"j", "s">> -> <<"javascript">>
      [] key = <<"t", "s">> -> <<"typescript">>
      [] key = <<"t", "s", "x">> -> <<"typescript">>
      [] key = <<"h", "t", "m", "l">> -> <<"html">>
      [] key = <<"c", "s", "s">> -> <<"css">>
      [] key = <<"x", "m", "l">> -> <<"xml">>
      [] key = <<"j", "s", "o", "n">> -> <<"json">>
      [] key = <<"y", "a", "m", "l">> -> <<"yaml">>
      [] key = <<"y", "m", "l">> -> <<"yaml">>
      [] key = <<"s", "h">> -> <<"bash">>
      [] key = <<"r", "b">> -> <<"ruby">>
      [] key = <<"k", "t">> -> <<"kotlin">>
      [] key = <<"g", "o">> -> <<"go">>
      [] key = <<"p", "h", "p">> -> <<"php">>
      [] key = <<"s", "w", "i", "f", "t">> -> <<"swift">>
      [] key = <<"s", "q", "l">> -> <<"sql">>
      [] OTHER -> <<>>

\* The path shown for a file: relative to base_dir when it lies below it.
RelPath(file_path, base_dir) ==
    LET abs_base == IF base_dir = <<>> THEN <<>> ELSE NormPath(base_dir)
        abs_file == NormPath(file_path)
        lead == abs_base \o <<"/">>
    IN  IF abs_base # <<>> /\ Len(abs_file) >= Len(lead)
              /\ SubSeq(abs_file, 1, Len(lead)) = lead
        THEN SubSeq(abs_file, Len(lead) + 1, Len(abs_file))
        ELSE file_path

\* What reading a file as text does: "ok", or the exception it raises.
ReadOutcome(f, file_path) ==
    LET n == Lookup(f, file_path) IN
    IF n.kind # "file" \/ n.st \in {"unreadable", "readoserror"} THEN "oserror"
    ELSE IF n.st = "readerror" THEN "error"
    ELSE "ok"

\* The line written for a file that is skipped or fails.
WarningLine(output_format, warning_msg) ==
    IF output_format = "xml" THEN <<>> ELSE <<"# ">> \o warning_msg

BinaryWarning(file_path) == <<"Skipping likely binary file: ">> \o Basename(file_path)

ErrorWarning(outcome, file_path) ==
    <<IF outcome = "oserror" THEN "Warning: Error processing file '"
      ELSE "Warning: Unexpected error processing file '">>
        \o Basename(file_path) \o <<"': ", "<exception>">>

\* The lines written for a file that is read.  The backquote of the Markdown
\* wrappers is written "^" (a string cannot hold a backquote here).
FormatFile(f, file_path, output_format, include_line_numbers, base_dir) ==
    LET rel_path == RelPath(file_path, base_dir)
        raw == Lookup(f, file_path).content
        content == IF include_line_numbers THEN add_line_numbers(raw) ELSE raw
    IN  IF output_format = "plaintext"
        THEN << <<"--- File: ">> \o rel_path \o <<" ---">>, content,
                <<"--- End File ---">>, <<>> >>
        ELSE IF output_format = "xml"
        THEN LET file_ext == LStripChar(SplitextExt(rel_path), ".")
             IN  << <<"<file path=\"">> \o escape_xml(rel_path) \o <<"\" type=\"">>
                        \o escape_xml(file_ext) \o <<"\">">>,
                    escape_xml(content), <<"</file>">> >>
        ELSE IF output_format = "markdown"
        THEN LET parts == SplitOn(file_path, ".")
                 lang == EXT_TO_LANG(Lower(parts[Len(parts)]))
             IN  << <<"**File:** ^">> \o rel_path \o <<"^">>, <<"^^^">> \o lang,
                    content, <<"^^^">>, <<>> >>
        ELSE <<>>

\* One pass of the loop over the selected files: the lines it appends.
\* The lines of a file that passed the probe, by the outcome of its read.
FileLinesRead(f, file_path, outcome, output_format, include_line_numbers, base_dir) ==
    IF outcome # "ok"
    THEN <<WarningLine(output_format, ErrorWarning(outcome, file_path))>>
    ELSE FormatFile(f, file_path, output_format, include_line_numbers, base_dir)

FileLinesOut(f, file_path, output_format, include_line_numbers, base_dir) ==
    IF is_likely_binary_file(f, file_path)
    THEN <<WarningLine(output_format, BinaryWarning(file_path))>>
    ELSE FileLinesRead(f, file_path, ReadOutcome(f, file_path), output_format,
                       include_line_numbers, base_dir)

\* sorted(file_paths): ascending by code point (insertion sort, stable).
PathBeforeUnsorted(p, q) == FALSE

PathBefore(p, q) == StrLess(p, q)

RECURSIVE InsertPath(_, _)
InsertPath(x, s) ==
    IF s = <<>> THEN <<x>>
    ELSE IF PathBefore(x, Head(s)) THEN <<x>> \o s
    ELSE <<Head(s)>> \o InsertPath(x, Tail(s))

RECURSIVE SortPaths(_)
SortPaths(s) ==
    IF s = <<>> THEN <<>>
    ELSE InsertPath(s[Len(s)], SortPaths(SubSeq(s, 1, Len(s) - 1)))

RECURSIVE AllFileLines(_, _, _, _, _)
AllFileLines(f, paths, output_format, include_line_numbers, base_dir) ==
    IF paths = <<>> THEN <<>>
    ELSE FileLinesOut(f, Head(paths), output_format, include_line_numbers, base_dir)
           \o AllFileLines(f, Tail(paths), output_format, include_line_numbers, base_dir)

\* The project-structure section; tree is generate_project_tree's result.
TreeText(tree, base_dir) ==
    Basename(base_dir) \o <<"\n">>
        \o Join([i \in 1..Len(tree.rows) |-> tree.rows[i].text], <<"\n">>)

TreeWrapped(full_tree_text, output_format) ==
    (IF output_format = "xml"
     THEN << <<"<projectTree>">>, escape_xml(full_tree_text), <<"</projectTree>">> >>
     ELSE IF output_format = "markdown"
     THEN << <<"**Project Structure:**">>, <<"^^^">>, full_tree_text, <<"^^^">> >>
     ELSE << <<"--- Project Structure ---">>, full_tree_text,
             <<"--- End Structure ---">> >>)
    \o << <<>> >>

TreeSection(tree, output_format, base_dir) ==
    TreeWrapped(TreeText(tree, base_dir), output_format)

FilesSection(f, file_paths, output_format, include_line_numbers, base_dir) ==
    IF file_paths = <<>> THEN <<>>
    ELSE (IF output_format = "xml" THEN << <<"<files>">> >>
          ELSE << <<"--- Files ---">>, <<>> >>)
         \o AllFileLines(f, SortPaths(file_paths), output_format,
                         include_line_numbers, base_dir)
         \o (IF output_format = "xml" THEN << <<"</files>">> >> ELSE <<>>)

\* generate_output; m is the FileTreeModel and hidden_check the state of the
\* "Show Hidden Files" box.  The result is [raised, text, rows]: rows are the
\* rows of the diagram it embeds.
ResultLines(f, with_tree, tree, file_paths, output_format, include_line_numbers, base_dir) ==
    (IF output_format = "xml" THEN << <<"<context>">> >> ELSE <<>>)
    \o (IF with_tree THEN TreeSection(tree, output_format, base_dir) ELSE <<>>)
    \o FilesSection(f, file_paths, output_format, include_line_numbers, base_dir)
    \o (IF output_format = "xml" THEN << <<"</context>">> >> ELSE <<>>)

\* generate_output once the diagram, tree, is rendered (or was not asked for).
OutputWith(f, with_tree, tree, file_paths, output_format, include_line_numbers, base_dir) ==
    IF tree.raised THEN [raised |-> TRUE, text |-> <<>>, rows |-> <<>>]
    ELSE [raised |-> FALSE,
          text |-> Join(ResultLines(f, with_tree, tree, file_paths, output_format,
                                    include_line_numbers, base_dir), <<"\n">>),
          rows |-> tree.rows]

generate_output(f, m, hidden_check, file_paths, output_format, include_line_numbers, include_project_tree, base_dir) ==
    OutputWith(f, include_project_tree /\ base_dir # <<>>,
               IF include_project_tree /\ base_dir # <<>>
               THEN generate_project_tree(f, base_dir, ~hidden_check,
                        IF m.use_gitignore THEN m.gitignore_rules ELSE <<>>)
               ELSE [raised |-> FALSE, rows |-> <<>>],
               file_paths, output_format, include_line_numbers, base_dir)

(***************************************************************************)
(* The application: FileTreeModel, FileTree and ContextBuilder             *)
(***************************************************************************)

UPDATE_DEBOUNCE_MS == 300

MaxEvents == 3      \* user events in one run
MaxSel == 2         \* paths handed to generate_output by its harness

Formats == {"xml", "markdown", "plaintext"}

\* The toolbar as create_toolbar leaves it, and the model after __init__.
InitWidgets ==
    [format_combo |-> "xml", line_numbers_check |-> FALSE,
     project_tree_check |-> FALSE, hidden_check |-> FALSE, gitignore_check |-> TRUE]

InitModel ==
    [ignore_hidden |-> TRUE, use_gitignore |-> TRUE, gitignore_rules |-> <<>>,
     items |-> <<>>]

NoCall ==
    [valid |-> FALSE, file_paths |-> <<>>, output_format |-> "xml",
     include_line_numbers |-> FALSE, include_project_tree |-> FALSE,
     base_dir |-> <<>>, hidden_check |-> FALSE, gitignore_check |-> FALSE,
     raised |-> FALSE, rows |-> <<>>]

\* What a run has done so far: the user events, those since the last update
\* (burst) and how many that update answered (done), the time since the last
\* schedule_update, whether an exception ended the process or the last scan,
\* the last step, the call of generate_output the last update made, and the
\* call before it with its text when both had the same arguments.
InitHist ==
    [events |-> 0, burst |-> 0, done |-> 0, elapsed |-> 0, crashed |-> FALSE,
     scan_raised |-> FALSE, last |-> "init", call |-> NoCall,
     prev |-> [call |-> NoCall, text |-> <<>>]]

\* No direct call of generate_output yet; at is the number of user events
\* before the call.
InitGo ==
    [paths |-> <<>>, called |-> FALSE, at |-> 0, raised |-> FALSE, text |-> <<>>,
     rows |-> <<>>]

\* Neither function called yet.
InitFn == [op |-> "none", text |-> <<>>, tk |-> "unavailable", out |-> <<>>, count |-> 0]

InitPreview == [kind |-> "empty", text |-> <<>>, tokens |-> 0]

IgIdle == ig = [rules |-> <<>>, path |-> <<>>, isdir |-> FALSE, verdict |-> "none"]

\* update_filter_settings
update_filter_settings(m, w) ==
    [m EXCEPT !.ignore_hidden = ~w.hidden_check, !.use_gitignore = w.gitignore_check]

\* load_directory: [raised, model].  clear() drops every item before the
\* walk, and the rows of a level are appended only after its walk, so a walk
\* that raises leaves the model empty.
Loaded(m, rules, r) ==
    [raised |-> r.raised, model |-> [m EXCEPT !.gitignore_rules = rules, !.items = r.items]]

LoadWith(f, m, root, rules) ==
    Loaded(m, rules, LoadDir(f, root, m.ignore_hidden, m.use_gitignore, rules))

load_directory_KeepRules(f, m, path) ==
    LoadWith(f, m, NormPath(path), m.gitignore_rules)

load_directory(f, m, path) ==
    LoadWith(f, m, NormPath(path),
             IF m.use_gitignore THEN read_gitignore(f, NormPath(path)) ELSE <<>>)

\* The check states after load_directory: clear() destroys every item with
\* its check state, and each new item is made Unchecked.
clear_KeepChecks(set) == set

clear(set) == {}

\* schedule_update: QTimer.start(msec) on the single-shot timer, which
\* restarts it when it is running.
schedule_update_NoRestart(t) ==
    IF t.active THEN t ELSE [active |-> TRUE, remaining |-> UPDATE_DEBOUNCE_MS]

schedule_update(t) == [active |-> TRUE, remaining |-> UPDATE_DEBOUNCE_MS]

\* A user event that ends in schedule_update.
Scheduled(name) ==
    /\ update_timer' = schedule_update(update_timer)
    /\ hist' = [hist EXCEPT !.events = @ + 1, !.burst = @ + 1, !.elapsed = 0,
                            !.last = name]

Alive == ~hist.crashed /\ hist.events < MaxEvents

\* open_directory_path(Root)
OpenDirectory ==
    /\ Alive
    /\ IsDir(fs, Root)
    /\ \E r \in {load_directory(fs, update_filter_settings(file_model, widgets), Root)} :
           /\ current_dir' = NormPath(Root)
           /\ file_model' = r.model
           /\ checked' = clear(checked)
           /\ IF r.raised
              THEN /\ update_timer' = update_timer
                   /\ hist' = [hist EXCEPT !.events = @ + 1, !.last = "open",
                                           !.scan_raised = TRUE]
              ELSE /\ update_timer' = schedule_update(update_timer)
                   /\ hist' = [hist EXCEPT !.events = @ + 1, !.burst = @ + 1,
                                           !.elapsed = 0, !.last = "open",
                                           !.scan_raised = FALSE]
    /\ UNCHANGED <<ig, fs, widgets, preview, tiktoken, go, fn>>

\* update_filter_settings_and_reload, after the box `box` changed state.  An
\* exception leaving the slot ends the process.
FilterChanged(box) ==
    /\ Alive
    /\ widgets' = [widgets EXCEPT ![box] = ~@]
    /\ \E m \in {update_filter_settings(file_model, [widgets EXCEPT ![box] = ~@])} :
           /\ IF current_dir = <<>>
              THEN /\ file_model' = m
                   /\ UNCHANGED <<checked, update_timer>>
                   /\ hist' = [hist EXCEPT !.events = @ + 1, !.last = "filter"]
              ELSE \E r \in {load_directory(fs, m, current_dir)} :
                   /\ file_model' = r.model
                   /\ checked' = clear(checked)
                   /\ IF r.raised
                      THEN /\ update_timer' = update_timer
                           /\ hist' = [hist EXCEPT !.events = @ + 1, !.last = "filter",
                                                   !.scan_raised = TRUE, !.crashed = TRUE]
                      ELSE /\ update_timer' = schedule_update(update_timer)
                           /\ hist' = [hist EXCEPT !.events = @ + 1, !.burst = @ + 1,
                                                   !.elapsed = 0, !.last = "filter",
                                                   !.scan_raised = FALSE]
    /\ UNCHANGED <<ig, fs, current_dir, preview, tiktoken, go, fn>>

ToggleHidden == FilterChanged("hidden_check")
ToggleGitignore == FilterChanged("gitignore_check")

\* set_check_state_recursive: an item already in the wanted state is left
\* alone, its children too.
RECURSIVE SetCheckItems(_, _, _)
SetCheckItem(item, want, set) ==
    IF (item.path \in set) = want THEN set
    ELSE SetCheckItems(item.children, want,
                       IF want THEN set \cup {item.path} ELSE set \ {item.path})

SetCheckItems(items, want, set) ==
    IF items = <<>> THEN set
    ELSE SetCheckItems(Tail(items), want, SetCheckItem(Head(items), want, set))

\* mousePressEvent on the check box of an item; every setCheckState emits
\* itemChanged, which handle_item_changed answers with schedule_update.
ClickItem ==
    /\ Alive
    /\ \E i \in 1..Len(Flatten(file_model.items)) :
          LET item == Flatten(file_model.items)[i]
          IN  checked' = SetCheckItem(item, item.path \notin checked, checked)
    /\ Scheduled("click")
    /\ UNCHANGED <<ig, fs, current_dir, widgets, file_model, preview, tiktoken, go, fn>>

select_all_files ==
    /\ Alive
    /\ checked' = SetCheckItems(file_model.items, TRUE, checked)
    /\ Scheduled("select_all")
    /\ UNCHANGED <<ig, fs, current_dir, widgets, file_model, preview, tiktoken, go, fn>>

deselect_all_files ==
    /\ Alive
    /\ checked' = SetCheckItems(file_model.items, FALSE, checked)
    /\ Scheduled("deselect_all")
    /\ UNCHANGED <<ig, fs, current_dir, widgets, file_model, preview, tiktoken, go, fn>>

\* format_combo.currentTextChanged
SetFormat ==
    /\ Alive
    /\ \E fmt \in Formats \ {widgets.format_combo} :
          widgets' = [widgets EXCEPT !.format_combo = fmt]
    /\ Scheduled("format")
    /\ UNCHANGED <<ig, fs, current_dir, file_model, checked, preview, tiktoken, go, fn>>

\* line_numbers_check.stateChanged, project_tree_check.stateChanged
OptionChanged(box) ==
    /\ Alive
    /\ widgets' = [widgets EXCEPT ![box] = ~@]
    /\ Scheduled("option")
    /\ UNCHANGED <<ig, fs, current_dir, file_model, checked, preview, tiktoken, go, fn>>

ToggleLineNumbers == OptionChanged("line_numbers_check")
ToggleProjectTree == OptionChanged("project_tree_check")

\* get_checked_files: the checked items that are files on disk, in tree order.
RECURSIVE CheckedOf(_, _, _)
CheckedOf(f, flat, set) ==
    IF flat = <<>> THEN <<>>
    ELSE (IF Head(flat).path \in set /\ IsFile(f, Head(flat).path)
          THEN <<Head(flat).path>> ELSE <<>>)
         \o CheckedOf(f, Tail(flat), set)

get_checked_files(f, m, set) == CheckedOf(f, Flatten(m.items), set)

\* Time passes while the timer runs.
Tick(dt) ==
    /\ ~hist.crashed
    /\ update_timer.active /\ update_timer.remaining > 0
    /\ update_timer' = [update_timer EXCEPT
                          !.remaining = IF @ > dt THEN @ - dt ELSE 0]
    /\ hist' = [hist EXCEPT !.elapsed = IF @ + dt < UPDATE_DEBOUNCE_MS
                                         THEN @ + dt ELSE UPDATE_DEBOUNCE_MS,
                            !.last = "tick"]
    /\ UNCHANGED <<ig, fs, current_dir, widgets, file_model, checked, preview,
                   tiktoken, go, fn>>

\* What update_preview_and_tokens shows, and the call it makes.
CallOf(dir, w, checked_files, out) ==
    [valid |-> TRUE, file_paths |-> checked_files, output_format |-> w.format_combo,
     include_line_numbers |-> w.line_numbers_check,
     include_project_tree |-> w.project_tree_check, base_dir |-> dir,
     hidden_check |-> w.hidden_check, gitignore_check |-> w.gitignore_check,
     raised |-> out.raised, rows |-> out.rows]

Placeholder(msg) ==
    [shown |-> [kind |-> "placeholder", text |-> <<msg>>, tokens |-> 0], call |-> NoCall]

\* The preview once generate_output returned out, or raised.
PreviewShown(dir, w, checked_files, out, tk) ==
    IF out.raised
    THEN [shown |-> [kind |-> "error",
                     text |-> <<"Error generating preview:\n\n", "<exception>">>,
                     tokens |-> -1],
          call |-> CallOf(dir, w, checked_files, out)]
    ELSE [shown |-> [kind |-> "output", text |-> out.text,
                     tokens |-> estimate_tokens(out.text, tk)],
          call |-> CallOf(dir, w, checked_files, out)]

PreviewFor(f, dir, w, m, checked_files, tk) ==
    IF dir = <<>>
    THEN Placeholder("Open a folder to begin.")
    ELSE IF checked_files = <<>> /\ ~w.project_tree_check
    THEN Placeholder("No files selected and project structure not included.")
    ELSE PreviewShown(dir, w, checked_files,
                      generate_output(f, m, w.hidden_check, checked_files, w.format_combo,
                                      w.line_numbers_check, w.project_tree_check, dir),
                      tk)

PreviewOf(f, dir, w, m, set, tk) ==
    PreviewFor(f, dir, w, m, get_checked_files(f, m, set), tk)

\* Two calls of generate_output with the same arguments and filter settings.
SameArguments(c, d) ==
    /\ c.file_paths = d.file_paths
    /\ c.output_format = d.output_format
    /\ c.include_line_numbers = d.include_line_numbers
    /\ c.include_project_tree = d.include_project_tree
    /\ c.base_dir = d.base_dir
    /\ c.hidden_check = d.hidden_check
    /\ c.gitignore_check = d.gitignore_check

\* update_timer.timeout: the single-shot timer stops and
\* update_preview_and_tokens runs.
TimerFires ==
    /\ ~hist.crashed
    /\ update_timer.active /\ update_timer.remaining = 0
    /\ update_timer' = [update_timer EXCEPT !.active = FALSE]

update_preview_and_tokens ==
    /\ TimerFires
    /\ \E p \in {PreviewOf(fs, current_dir, widgets, file_model, checked, tiktoken)} :
           /\ preview' = p.shown
           /\ hist' = [hist EXCEPT !.burst = 0, !.done = hist.burst, !.last = "update",
                                   !.call = p.call,
                                   !.prev = IF hist.call.valid /\ SameArguments(hist.call, p.call)
                                            THEN [call |-> hist.call, text |-> preview.text]
                                            ELSE [call |-> NoCall, text |-> <<>>]]
    /\ UNCHANGED <<ig, fs, current_dir, widgets, file_model, checked, tiktoken, go, fn>>

(***************************************************************************)
(* Harness of generate_output: a selection built path by path (it need not *)
(* come from the tree), then the call with the options of the toolbar.     *)
(***************************************************************************)

GoPaths ==
    { <<"/", "r", "/", "a">>, <<"/", "r", "/", "b">>,
      <<"/", "r", "/", "d", "/", "a">>, <<"/", "r", "/", "a", ".", "p", "y">> }

\* One more path, not yet selected, from the set paths.
GoSelectFrom(paths) ==
    /\ ~go.called
    /\ Len(go.paths) < MaxSel
    /\ \E p \in paths :
          /\ \A i \in 1..Len(go.paths) : go.paths[i] # p
          /\ go' = [go EXCEPT !.paths = Append(@, p)]
    /\ UNCHANGED <<ig, appvars, fn>>

GoSelect == GoSelectFrom(GoPaths)

GoCall ==
    /\ ~go.called
    /\ current_dir # <<>>
    /\ \E out \in {generate_output(fs, file_model, widgets.hidden_check, go.paths,
                                    widgets.format_combo, widgets.line_numbers_check,
                                    widgets.project_tree_check, current_dir)} :
           go' = [go EXCEPT !.called = TRUE, !.at = hist.events, !.raised = out.raised,
                            !.text = out.text, !.rows = out.rows]
    /\ UNCHANGED <<ig, appvars, fn>>

(***************************************************************************)
(* File systems the runs start from                                        *)
(***************************************************************************)

MaxEntries == 2     \* entries of the project root, besides .gitignore

Entry(name, node) == [name |-> name, node |-> node]

N_a == <<"a">>
N_b == <<"b">>
N_d == <<"d">>
N_h == <<".", "h">>
N_al == <<"a", ".", "l">>
N_apy == <<"a", ".", "p", "y">>

\* The text of the file tagged tag: two lines, the first its own, so that the
\* texts of different files differ and none holds the first line of another.
TextOf(tag) == <<"x">> \o tag \o <<";", "\n", "<", "y", "&">>

\* A file by what the binary probe and the read meet in it.
FileOfKind(name, kind) ==
    CASE kind = "text"        -> FileNode("ok", 0, TextOf(name))
      [] kind = "nul_first"   -> FileNode("ok", 1, TextOf(name))
      [] kind = "nul_last"    -> FileNode("ok", BINARY_CHECK_CHUNK_SIZE, TextOf(name))
      [] kind = "nul_beyond"  -> FileNode("ok", BINARY_CHECK_CHUNK_SIZE + 1, TextOf(name))
      [] kind = "unreadable"  -> FileNode("unreadable", 0, TextOf(name))
      [] kind = "readoserror" -> FileNode("readoserror", 0, TextOf(name))
      [] OTHER                -> FileNode("readerror", 0, TextOf(name))

ProbeKinds == {"text", "nul_first", "nul_last", "nul_beyond", "unreadable"}

\* The .gitignore files: none, or one of these texts.
GitignoreTexts ==
    { <<"*", ".", "l", "\n">>,
      <<"#", "c", "\n", "\n", "d", "/", "\n", "!", "a", "\n">> }

GitignoreEntries ==
    {<<>>} \cup { <<Entry(GitignoreName, FileNode("ok", 0, t))>> : t \in GitignoreTexts }

ListStates == {"ok", "perm", "notfound", "oserror"}

ScanEntries ==
    { Entry(N_a, FileOfKind(N_a, k)) : k \in ProbeKinds }
    \cup { Entry(N_h, FileOfKind(N_h, "text")), Entry(N_al, FileOfKind(N_al, "text")) }
    \cup { Entry(N_d, DirNode(st, <<>>)) : st \in ListStates }
    \cup { Entry(N_d, DirNode("ok", <<Entry(N_a, FileOfKind(N_a, k))>>)) :
             k \in {"text", "nul_first"} }
    \cup { Entry(N_d, DirNode("ok", << Entry(N_al, FileOfKind(N_al, "text")),
                                       Entry(N_a, FileOfKind(N_a, "text")) >>)) }

\* The names of ScanEntries in the order os.listdir returns them here: an
\* order that is not the order of the tree (files come before directories).
ScanNames == <<N_al, N_a, N_h, N_d>>

\* The listings of up to n entries, with names from the i-th of ScanNames on.
RECURSIVE Listings(_, _)
Listings(i, n) ==
    IF i > Len(ScanNames) \/ n = 0 THEN {<<>>}
    ELSE Listings(i + 1, n) \cup
         { <<e>> \o l : e \in { x \in ScanEntries : x.name = ScanNames[i] },
                        l \in Listings(i + 1, n - 1) }

ScanFs ==
    { DirNode("ok", g \o l) : g \in GitignoreEntries, l \in Listings(1, MaxEntries) }

OutFs ==
    { DirNode("ok", << Entry(N_a, FileOfKind(N_a, ka)),
                       Entry(N_b, FileOfKind(N_b, kb)),
                       Entry(N_apy, FileOfKind(N_apy, "text")),
                       Entry(N_d, d) >>) :
        ka \in ProbeKinds \cup {"readoserror", "readerror"},
        kb \in {"text", "nul_first"},
        d \in { DirNode("perm", <<>>), DirNode("oserror", <<>>) }
              \cup { DirNode("ok", <<Entry(N_a, FileOfKind(N_d \o N_a, k))>>) :
                       k \in {"text", "readerror"} } }

AppFs ==
    { DirNode("ok", << Entry(GitignoreName, FileNode("ok", 0, <<"*", ".", "l", "\n">>)),
                       Entry(N_al, FileOfKind(N_al, "text")),
                       Entry(N_a, FileOfKind(N_a, "text")),
                       Entry(N_d, DirNode("ok", <<Entry(N_b, FileOfKind(N_b, "text"))>>)) >>),
      DirNode("ok", << Entry(N_b, FileOfKind(N_b, "nul_first")),
                       Entry(N_a, FileOfKind(N_a, "text")),
                       Entry(N_d, DirNode("oserror", <<>>)) >>) }

\* Projects for the order of siblings: names that differ in case only, files
\* listed before directories, with every order of the listing of the root.
MaxSiblings == 3    \* entries of the root in these projects

N_A == <<"A">>
N_B == <<"B">>

OrderEntries ==
    { Entry(N_b, FileOfKind(N_b, "text")), Entry(N_B, FileOfKind(N_B, "text")),
      Entry(N_a, FileOfKind(N_a, "text")) }
    \cup { Entry(N_A, DirNode("ok", l)) :
             l \in { <<>>,
                     << Entry(N_b, FileOfKind(N_b, "text")),
                        Entry(N_B, FileOfKind(N_B, "text")) >>,
                     << Entry(N_B, FileOfKind(N_B, "text")),
                        Entry(N_a, FileOfKind(N_a, "text")),
                        Entry(N_A, DirNode("ok", <<>>)) >> } }

\* The listings of up to n entries of S, under distinct names, in any order.
RECURSIVE Arrange(_, _)
Arrange(S, n) ==
    IF n = 0 THEN {<<>>}
    ELSE {<<>>} \cup UNION { { <<e>> \o l : l \in Arrange({ x \in S : x.name # e.name },
                                                            n - 1) } : e \in S }

OrderFs == { DirNode("ok", l) : l \in Arrange(OrderEntries, MaxSiblings) }

\* Projects for pruning: a directory d that a rule ignores and a hidden
\* directory, each with entries below it, and a later rule !a that matches
\* an entry below them.
PruneTexts ==
    { <<"d", "/", "\n", "!", "a", "\n">>, <<"*", "\n", "!", "a", "\n">> }

PruneDirs ==
    { << Entry(N_a, FileOfKind(N_a, "text")) >>,
      << Entry(N_b, FileOfKind(N_b, "text")),
         Entry(N_d, DirNode("ok", <<Entry(N_a, FileOfKind(N_a, "text"))>>)) >> }

PruneFs ==
    { DirNode("ok", << Entry(GitignoreName, FileNode("ok", 0, t)),
                       Entry(N_a, FileOfKind(N_a, "text")),
                       Entry(N_h, DirNode("ok", h)),
                       Entry(N_d, DirNode("ok", d)) >>) :
        t \in PruneTexts, h \in PruneDirs, d \in PruneDirs }

\* Projects of text files only, for the serializer: a file a with one of
\* several texts, a file whose name and extension hold the characters XML
\* reserves, a file named like an entity, and a file one level down.
N_amp == <<"a", "&", ".", "<", ">">>
N_ent == <<"&", "l", "t", ";">>

\* Texts: empty, without and with a final line end, with blank lines, with
\* reserved characters and an entity, and with a line that reads like the
\* end marker or like the header of another file of the PlainText format.
TextContents ==
    { <<>>,
      <<"x">>,
      <<"x", "\n">>,
      <<"\n", "\n", "x", "\n", "\n">>,
      <<"&", "l", "t", ";", "<", "\n", ">", "&">>,
      <<"x", "\n", "--- End File ---", "\n", "y">>,
      <<"--- File: ", "d", "/", "a", " ---", "\n", "z">> }

TextFs ==
    { DirNode("ok", << Entry(N_d, DirNode("ok", <<Entry(N_a, FileNode("ok", 0, TextOf(N_d)))>>)),
                       Entry(N_amp, FileNode("ok", 0, ca)),
                       Entry(N_ent, FileNode("ok", 0, TextOf(N_ent))),
                       Entry(N_a, FileNode("ok", 0, c)) >>) :
        c \in TextContents, ca \in { <<"<", "&", ">">>, <<"x">> } }

TextPaths ==
    { PathJoin(Root, N_a), PathJoin(Root, N_amp), PathJoin(Root, N_ent),
      PathJoin(PathJoin(Root, N_d), N_a) }

TextSelect == GoSelectFrom(TextPaths)

(***************************************************************************)
(* Specifications                                                          *)
(***************************************************************************)

\* The application as __init__ leaves it, on the file system f.
AppStart(f) ==
    /\ fs = f
    /\ current_dir = <<>>
    /\ widgets = InitWidgets
    /\ file_model = update_filter_settings(InitModel, InitWidgets)
    /\ checked = {}
    /\ update_timer = [active |-> FALSE, remaining |-> 0]
    /\ preview = InitPreview
    /\ tiktoken = "unavailable"
    /\ hist = InitHist
    /\ go = InitGo
    /\ fn = InitFn
    /\ IgIdle

TickSteps == {100, 200}

Init == \E f \in AppFs : AppStart(f)

Next ==
    \/ OpenDirectory
    \/ ToggleHidden
    \/ ToggleGitignore
    \/ ClickItem
    \/ select_all_files
    \/ deselect_all_files
    \/ SetFormat
    \/ ToggleLineNumbers
    \/ ToggleProjectTree
    \/ \E dt \in TickSteps : Tick(dt)
    \/ update_preview_and_tokens

Spec == Init /\ [][Next]_vars

\* The event loop of the application runs on: time passes while the timer
\* runs, and a timer that has expired fires.
SpecLive ==
    /\ Spec
    /\ WF_vars(\E dt \in TickSteps : Tick(dt))
    /\ WF_update_timer(TimerFires)

\* The scan and the diagram, over many file systems.
ScanInit == \E f \in ScanFs : AppStart(f)

ScanNext ==
    \/ OpenDirectory
    \/ ToggleHidden
    \/ ToggleGitignore
    \/ ToggleProjectTree
    \/ Tick(UPDATE_DEBOUNCE_MS)
    \/ update_preview_and_tokens

SpecScan == ScanInit /\ [][ScanNext]_vars

\* The scan alone, over the same file systems: every step that builds the tree.
TreeNext ==
    \/ OpenDirectory
    \/ ToggleHidden
    \/ ToggleGitignore

SpecTree == ScanInit /\ [][TreeNext]_vars

\* The scan and the diagram of generate_output, each made directly, on the
\* projects for the order of siblings and for pruning.
DiagInit == \E f \in OrderFs \cup PruneFs : AppStart(f)

DiagNext ==
    \/ OpenDirectory
    \/ ToggleHidden
    \/ ToggleGitignore
    \/ ToggleProjectTree
    \/ GoCall

SpecDiag == DiagInit /\ [][DiagNext]_vars

\* generate_output on any selection, in a project that is open.
OutInit ==
    /\ fs \in OutFs
    /\ current_dir = Root
    /\ widgets \in { [InitWidgets EXCEPT !.format_combo = fmt,
                                         !.line_numbers_check = ln,
                                         !.project_tree_check = pt] :
                       fmt \in Formats, ln \in BOOLEAN, pt \in BOOLEAN }
    /\ file_model = load_directory(fs, update_filter_settings(InitModel, InitWidgets),
                                   Root).model
    /\ checked = {}
    /\ update_timer = [active |-> FALSE, remaining |-> 0]
    /\ preview = InitPreview
    /\ tiktoken = "unavailable"
    /\ hist = InitHist
    /\ go = InitGo
    /\ fn = InitFn
    /\ IgIdle

OutNext == GoSelect \/ GoCall

SpecOut == OutInit /\ [][OutNext]_vars

\* generate_output on projects of text files.
TextInit ==
    /\ fs \in TextFs
    /\ current_dir = Root
    /\ widgets \in { [InitWidgets EXCEPT !.format_combo = fmt,
                                         !.line_numbers_check = ln,
                                         !.project_tree_check = pt] :
                       fmt \in Formats, ln \in BOOLEAN, pt \in BOOLEAN }
    /\ file_model = load_directory(fs, update_filter_settings(InitModel, InitWidgets),
                                   Root).model
    /\ checked = {}
    /\ update_timer = [active |-> FALSE, remaining |-> 0]
    /\ preview = InitPreview
    /\ tiktoken = "unavailable"
    /\ hist = InitHist
    /\ go = InitGo
    /\ fn = InitFn
    /\ IgIdle

TextNext == TextSelect \/ GoCall

SpecText == TextInit /\ [][TextNext]_vars

(***************************************************************************)
(* Harness of should_ignore: a rule list built in file order, a path, and  *)
(* whether the path is a directory; then the verdict.                      *)
(***************************************************************************)

MaxRules == 3

IgRules ==
    { <<"a">>, <<"!", "a">>,
      <<"*">>, <<"!", "*">>,
      <<"d", "/">>, <<"!", "d", "/">>,
      <<"d", "/", "a">>, <<"!", "d", "/", "a">>,
      <<"*", ".", "l">>, <<"!", "*", ".", "l">>,
      <<"#", "a">>, <<>> }

IgPaths ==
    { <<"/", "r", "/", "a">>, <<"/", "r", "/", "d">>,
      <<"/", "r", "/", "d", "/", "a">>, <<"/", "r", "/", "a", ".", "l">>,
      <<"/", "r", "/", "b">> }

\* The application does not run in this harness.
AppIdle ==
    /\ fs = DirNode("ok", <<>>)
    /\ current_dir = <<>>
    /\ widgets = InitWidgets
    /\ file_model = InitModel
    /\ checked = {}
    /\ update_timer = [active |-> FALSE, remaining |-> 0]
    /\ preview = InitPreview
    /\ tiktoken = "unavailable"
    /\ hist = InitHist
    /\ go = InitGo

IgInit ==
    /\ ig \in [rules : {<<>>}, path : IgPaths, isdir : BOOLEAN, verdict : {"none"}]
    /\ AppIdle
    /\ fn = InitFn

IgAddRule ==
    /\ ig.verdict = "none"
    /\ Len(ig.rules) < MaxRules
    /\ \E r \in IgRules : ig' = [ig EXCEPT !.rules = Append(@, r)]
    /\ UNCHANGED <<appvars, go, fn>>

IgEvaluate ==
    /\ ig.verdict = "none"
    /\ ig' = [ig EXCEPT !.verdict =
                 IF should_ignore(ig.path, ig.rules, ig.isdir)
                 THEN "ignored" ELSE "kept"]
    /\ UNCHANGED <<appvars, go, fn>>

IgNext == IgAddRule \/ IgEvaluate

SpecIgnore == IgInit /\ [][IgNext]_vars

(***************************************************************************)
(* Harness of add_line_numbers and estimate_tokens: a text, then one call  *)
(* of either function on it.                                               *)
(***************************************************************************)

MaxText == 12       \* characters of a text

\* The texts of up to n characters, each an x or a line end.
RECURSIVE TextsUpTo(_)
TextsUpTo(n) ==
    IF n = 0 THEN {<<>>}
    ELSE {<<>>} \cup { <<c>> \o t : c \in {"x", "\n"}, t \in TextsUpTo(n - 1) }

\* A text of 400 characters besides, written as eight pieces of fifty.
Fifty == "xxxxxxxxxxxxxxxxxxxxxxxxxxxxxxxxxxxxxxxxxxxxxxxxxx"

FnTexts == TextsUpTo(MaxText) \cup { [i \in 1..8 |-> Fifty] }

\* What the tokenizer does (see estimate_tokens).
TokenizerStates == {"unavailable", "keyerror", "error", "ok"}

FnInit ==
    /\ fn \in { [InitFn EXCEPT !.text = t] : t \in FnTexts }
    /\ AppIdle
    /\ IgIdle

FnNumber ==
    /\ fn.op = "none"
    /\ fn' = [fn EXCEPT !.op = "add_line_numbers", !.out = add_line_numbers(fn.text)]
    /\ UNCHANGED <<ig, appvars, go>>

FnEstimate ==
    /\ fn.op = "none"
    /\ \E tk \in TokenizerStates :
          fn' = [fn EXCEPT !.op = "estimate_tokens", !.tk = tk,
                           !.count = estimate_tokens(fn.text, tk)]
    /\ UNCHANGED <<ig, appvars, go>>

FnNext == FnNumber \/ FnEstimate

SpecFn == FnInit /\ [][FnNext]_vars

(***************************************************************************)
(* Claims about should_ignore                                              *)
(***************************************************************************)

\* A rule that is a plain pattern: not skipped and not negated.
IsPattern(rule) == ~RuleSkipped(rule) /\ ~RuleNegating(rule)

IgMatches(rule) == RuleMatch(RulePattern(rule), ig.path, ig.isdir)

\* C1: for a pattern A and a path matching A, the rule list [A] gives
\* "ignored" and the rule list [A, !A] gives "not ignored".
C1_NegationClears ==
    ig.verdict # "none" =>
        /\ (Len(ig.rules) = 1 /\ IsPattern(ig.rules[1]) /\ IgMatches(ig.rules[1]))
               => ig.verdict = "ignored"
        /\ (/\ Len(ig.rules) = 2
            /\ IsPattern(ig.rules[1])
            /\ ig.rules[2] = <<"!">> \o ig.rules[1]
            /\ IgMatches(ig.rules[1]))
               => ig.verdict = "kept"

C1_Witness ==
    /\ ig.verdict = "kept"
    /\ Len(ig.rules) = 2
    /\ IsPattern(ig.rules[1])
    /\ ig.rules[2] = <<"!">> \o ig.rules[1]
    /\ IgMatches(ig.rules[1])

\* The rules of the list that match the path, by index.
IgMatching ==
    { i \in 1..Len(ig.rules) : ~RuleSkipped(ig.rules[i]) /\ IgMatches(ig.rules[i]) }

IgLast == CHOOSE i \in IgMatching : \A j \in IgMatching : j <= i

\* C2 as stated: the verdict is that of the last matching rule (ignored iff
\* it is not negated), and "not ignored" when no rule matches.
C2_LastMatchWins ==
    ig.verdict # "none" =>
        (ig.verdict = "ignored") =
            (IgMatching # {} /\ ~RuleNegating(ig.rules[IgLast]))

\* C2 amended: a matching negated rule is sticky. The path is ignored iff
\* some plain rule matches it and no negated rule matches it; so the last
\* matching rule decides, except that a plain match after a negated match
\* has no effect.
C2_StickyNegation ==
    ig.verdict # "none" =>
        (ig.verdict = "ignored") =
                     (/\ \E i \in IgMatching : ~RuleNegating(ig.rules[i])
                      /\ \A i \in IgMatching : ~RuleNegating(ig.rules[i]))

\* [A, !A, A] on a path matching A is evaluated and comes out "not ignored".
C2_Witness ==
    /\ ig.verdict = "kept"
    /\ Len(ig.rules) = 3
    /\ IsPattern(ig.rules[1])
    /\ ig.rules[2] = <<"!">> \o ig.rules[1]
    /\ ig.rules[3] = ig.rules[1]
    /\ IgMatches(ig.rules[1])

(***************************************************************************)
(* Claims about the scan and the diagram                                   *)
(***************************************************************************)

\* The last step was an update whose call of generate_output returned with
\* the diagram in it: the tree is the one of the most recent scan, made on
\* the same file system under the same settings.
DiagramShown ==
    /\ hist.last = "update"
    /\ hist.call.valid /\ ~hist.call.raised
    /\ hist.call.include_project_tree

DiagramPaths == { hist.call.rows[i].path : i \in 1..Len(hist.call.rows) }

\* C3: every entry of the diagram that generate_output embeds is a node of
\* the tree built by the most recent scan under the same settings.
C3_DiagramWithinTree ==
    DiagramShown => DiagramPaths \subseteq ItemPaths(file_model.items)

\* A file with a null byte among its first 1024 bytes, and a file the
\* binary probe cannot read.
NulInChunk(n) == n.nul >= 1 /\ n.nul <= 1024
ProbeFails(n) == n.kind # "file" \/ n.st = "unreadable"

TreeItem(i) == Flatten(file_model.items)[i]

\* What get_checked_files returns when every item of the tree is checked:
\* it returns a part of it when fewer are.
AllChecked == get_checked_files(fs, file_model, ItemPaths(file_model.items))

\* C4: after any scan the tree holds no file node with a null byte in its
\* first 1024 bytes and none whose probe failed, so that get_checked_files
\* returns no such file whatever is checked.
C4_NoBinaryInTree ==
    /\ \A i \in 1..Len(Flatten(file_model.items)) :
          ~TreeItem(i).isdir =>
              /\ ~NulInChunk(Lookup(fs, TreeItem(i).path))
              /\ ~ProbeFails(Lookup(fs, TreeItem(i).path))
    /\ \A i \in 1..Len(AllChecked) :
          /\ ~NulInChunk(Lookup(fs, AllChecked[i]))
          /\ ~ProbeFails(Lookup(fs, AllChecked[i]))

\* A scan without gitignore rules has left out a file of the root whose
\* null byte is the 1024th, or that the probe cannot read, and kept others.
C4_Witness ==
    /\ current_dir # <<>> /\ ~hist.scan_raised
    /\ ~file_model.use_gitignore
    /\ file_model.items # <<>>
    /\ \E i \in 1..Len(fs.entries) :
          /\ fs.entries[i].name = N_a
          /\ fs.entries[i].node.kind = "file"
          /\ fs.entries[i].node.nul = 1024 \/ fs.entries[i].node.st = "unreadable"
          /\ PathJoin(Root, N_a) \notin ItemPaths(file_model.items)

\* The file system in which every directory whose listing fails is an
\* empty directory instead.
RECURSIVE Healed(_)
Healed(node) ==
    IF node.kind # "dir" THEN node
    ELSE IF node.st # "ok" THEN DirNode("ok", <<>>)
    ELSE DirNode("ok", [i \in 1..Len(node.entries) |->
                           Entry(node.entries[i].name, Healed(node.entries[i].node))])

\* C7: a directory whose listing fails, whatever the error, gets an empty
\* child list and the rest is scanned in full: neither load_directory nor
\* the rendering of the diagram is aborted, and both give what they give
\* when the failing directories are empty.
C7_SubtreeIsolation ==
    /\ ~hist.scan_raised
    /\ current_dir # <<>> =>
          file_model.items =
              LoadDir(Healed(fs), current_dir, file_model.ignore_hidden,
                      file_model.use_gitignore, file_model.gitignore_rules).items
    /\ (hist.last = "update" /\ hist.call.valid) =>
          /\ ~hist.call.raised
          /\ hist.call.include_project_tree =>
                hist.call.rows =
                    generate_project_tree(Healed(fs), current_dir, ~hist.call.hidden_check,
                        IF file_model.use_gitignore THEN file_model.gitignore_rules
                        ELSE <<>>).rows

(***************************************************************************)
(* Claims about generate_output                                            *)
(***************************************************************************)

\* Whether sub occurs in s, and where it first does.
HasSub(s, sub) ==
    \E k \in 1..(Len(s) - Len(sub) + 1) : SubSeq(s, k, k + Len(sub) - 1) = sub

Pos(s, sub) ==
    CHOOSE k \in 1..(Len(s) - Len(sub) + 1) :
        /\ SubSeq(s, k, k + Len(sub) - 1) = sub
        /\ \A j \in 1..(k - 1) : SubSeq(s, j, j + Len(sub) - 1) # sub

\* A selected path that is binary when generate_output runs, or whose read
\* raises.
Failing(p) ==
    \/ Lookup(fs, p).kind # "file"
    \/ Lookup(fs, p).st # "ok"
    \/ Lookup(fs, p).nul >= 1 /\ Lookup(fs, p).nul <= 1024

\* The first line of the file at p: no other file holds it.
OwnLine(p) == FileLines(Lookup(fs, p).content)[1]

WarningWords ==
    { "Skipping likely binary file: ", "Warning: Error processing file '",
      "Warning: Unexpected error processing file '" }

\* A line of the text is a warning that names the file at p.
WarnsAbout(text, p) ==
    \E i \in 1..Len(SplitLines(text)) :
        /\ \E w \in WarningWords : Contains(SplitLines(text)[i], w)
        /\ HasSub(SplitLines(text)[i], Basename(p))

\* C5: in every format, a selected path that is binary or whose read raises
\* leaves none of its content in the text that generate_output returns, and
\* the text holds a warning that identifies the file.
C5_WarningForSkipped ==
    (go.called /\ ~go.raised) =>
        \A i \in 1..Len(go.paths) :
            Failing(go.paths[i]) =>
                /\ Lookup(fs, go.paths[i]).kind = "file" =>
                       ~HasSub(go.text, OwnLine(go.paths[i]))
                /\ WarnsAbout(go.text, go.paths[i])

\* The block of the file at p in the format and with the options of the call.
Block(p) ==
    Join(FormatFile(fs, p, widgets.format_combo, widgets.line_numbers_check, current_dir),
         <<"\n">>)

\* The call of generate_output the harness makes, on another selection.
GoOutput(paths) ==
    generate_output(fs, file_model, widgets.hidden_check, paths, widgets.format_combo,
                    widgets.line_numbers_check, widgets.project_tree_check, current_dir)

GoReadable == SelectSeq(go.paths, LAMBDA p : ~Failing(p))

\* C6: when some selected files are binary or fail to read, generate_output
\* does not raise, and its text holds the complete block of every other
\* selected file, in the order they have when the failing files are not
\* selected.
C6_FileIsolation ==
    (go.called /\ \E i \in 1..Len(go.paths) : Failing(go.paths[i])) =>
        /\ ~go.raised
        /\ \A i \in 1..Len(GoReadable) : HasSub(go.text, Block(GoReadable[i]))
        /\ \A i, j \in 1..Len(GoReadable) :
              (Pos(go.text, Block(GoReadable[i])) < Pos(go.text, Block(GoReadable[j])))
                = (Pos(GoOutput(GoReadable).text, Block(GoReadable[i]))
                     < Pos(GoOutput(GoReadable).text, Block(GoReadable[j])))

\* The orders in which the selection of the call can be supplied.
GoPermutations ==
    { q \in [1..Len(go.paths) -> { go.paths[i] : i \in 1..Len(go.paths) }] :
        \A i \in 1..Len(go.paths) : \E j \in 1..Len(go.paths) : q[j] = go.paths[i] }

\* C10: the blocks of the files stand in the text in ascending order of
\* their full paths, code point by code point, and every order in which the
\* same selection is supplied gives the same text.
C10_SortedBlocks ==
    (go.called /\ ~go.raised) =>
        /\ \A i, j \in 1..Len(GoReadable) :
              StrLess(GoReadable[i], GoReadable[j]) =>
                  /\ HasSub(go.text, Block(GoReadable[i]))
                  /\ HasSub(go.text, Block(GoReadable[j]))
                  /\ Pos(go.text, Block(GoReadable[i])) < Pos(go.text, Block(GoReadable[j]))
        /\ \A q \in GoPermutations : GoOutput(q).text = go.text

\* A call returned on two readable files supplied in descending order.
C10_Witness ==
    /\ go.called /\ ~go.raised
    /\ Len(go.paths) = 2 /\ Len(GoReadable) = 2
    /\ StrLess(go.paths[2], go.paths[1])

(***************************************************************************)
(* Claims about the application                                            *)
(***************************************************************************)

\* A step that is a change of the selection, the format or an option.
ChangeEvent ==
    /\ hist'.events = hist.events + 1
    /\ hist'.last \in {"click", "select_all", "deselect_all", "format", "option"}

\* A step in which the timer fires.
UpdateStep == update_timer.active /\ ~update_timer'.active

C8_Step ==
    /\ ChangeEvent =>
          /\ update_timer' = [active |-> TRUE, remaining |-> UPDATE_DEBOUNCE_MS]
          /\ preview' = preview
    /\ UpdateStep =>
          /\ hist.elapsed >= UPDATE_DEBOUNCE_MS
          /\ hist.burst >= 1 /\ hist'.burst = 0
          /\ preview' = PreviewOf(fs, current_dir, widgets, file_model, checked,
                                  tiktoken).shown
    /\ ~UpdateStep => preview' = preview

\* C8: every change of the selection, the format or an option restarts the
\* timer with the full delay; the preview is recomputed only when the timer
\* fires, which it does only once the delay has passed since the last
\* restart; so a burst of events is answered by one recomputation, after its
\* last event, from the selection and the options then in force -- and as
\* long as the process lives, it is answered.
C8_Debounce ==
    /\ [][C8_Step]_vars
    /\ (hist.burst >= 1 /\ ~hist.crashed) ~> (hist.burst = 0 \/ hist.crashed)

\* One update has answered a burst of two events or more with an output.
C8_Witness ==
    /\ hist.last = "update"
    /\ hist.done >= 2
    /\ preview.kind = "output"

\* The model as a scan of f under the settings leaves it, with nothing kept
\* from earlier steps, and generate_output on it with the arguments of c.
FreshModel(f, dir, hidden_check, gitignore_check) ==
    [ignore_hidden |-> ~hidden_check, use_gitignore |-> gitignore_check,
     gitignore_rules |-> IF gitignore_check /\ dir # <<>>
                         THEN read_gitignore(f, dir) ELSE <<>>,
     items |-> <<>>]

PureOutput(f, c) ==
    generate_output(f, FreshModel(f, c.base_dir, c.hidden_check, c.gitignore_check),
                    c.hidden_check, c.file_paths, c.output_format,
                    c.include_line_numbers, c.include_project_tree, c.base_dir)

\* C9: what generate_output returns is fixed by its arguments, the file
\* system and the filter settings, whatever the application did before; and
\* two calls in a row with the same arguments and settings on the unchanged
\* file system return the same text.
C9_Deterministic ==
    /\ hist.call.valid =>
          /\ hist.call.raised = PureOutput(fs, hist.call).raised
          /\ ~hist.call.raised => preview.text = PureOutput(fs, hist.call).text
    /\ (hist.call.valid /\ hist.prev.call.valid) =>
          /\ SameArguments(hist.prev.call, hist.call)
          /\ hist.prev.call.raised = hist.call.raised
          /\ hist.prev.text = preview.text

\* Two calls in a row had the same arguments and returned, with the diagram
\* in the text and gitignore rules in force.
C9_Witness ==
    /\ hist.call.valid /\ hist.prev.call.valid
    /\ SameArguments(hist.prev.call, hist.call)
    /\ ~hist.call.raised
    /\ hist.call.include_project_tree
    /\ file_model.gitignore_rules # <<>>

(***************************************************************************)
(* Claims about the formats of the serializer                              *)
(***************************************************************************)

\* The lines of the text generate_output returned.
GoLines == SplitOn(go.text, "\n")

\* The path of p as the output shows it, p lying below the project root.
Shown(p) == SubSeq(p, Len(current_dir) + 2, Len(p))

\* The first index from `from` on at which lines holds line, 0 for none.
FirstAt(lines, from, line) ==
    LET hits == { i \in from..Len(lines) : lines[i] = line }
    IN  IF hits = {} THEN 0 ELSE CHOOSE i \in hits : \A j \in hits : i <= j

\* The text between the header line of p and the following end marker.
BetweenAt(lines, h, e) ==
    IF h = 0 \/ e = 0 THEN <<"<no block>">> ELSE Join(SubSeq(lines, h + 1, e - 1), <<"\n">>)

BetweenFrom(lines, h) ==
    BetweenAt(lines, h, IF h = 0 THEN 0 ELSE FirstAt(lines, h + 1, <<"--- End File ---">>))

Between(p) ==
    BetweenFrom(GoLines, FirstAt(GoLines, 1, <<"--- File: ">> \o Shown(p) \o <<" ---">>))

\* A file that is text for the probe and that reads without error.
TextFile(p) ==
    /\ Lookup(fs, p).kind = "file" /\ Lookup(fs, p).st = "ok"
    /\ ~NulInChunk(Lookup(fs, p))

PlainCall ==
    /\ go.called /\ ~go.raised
    /\ widgets.format_combo = "plaintext" /\ ~widgets.line_numbers_check

\* C11: in the PlainText format without line numbers, the text between the
\* header line of a selected text file and the following end marker is the
\* content of the file, character for character.
C11_PlainTextRoundTrip ==
    PlainCall =>
        \A i \in 1..Len(go.paths) :
            TextFile(go.paths[i]) => Between(go.paths[i]) = Lookup(fs, go.paths[i]).content

(***************************************************************************)
(* Claims about the order of siblings and about pruning                    *)
(***************************************************************************)

\* The directory a path lies in.
Parent(p) == SubSeq(p, 1, Len(p) - Len(Basename(p)) - 1)

\* A scan has built the tree; generate_output has rendered the diagram, and
\* no box of the toolbar has changed since.
Scanned == current_dir # <<>> /\ ~hist.scan_raised
Rendered ==
    /\ go.called /\ ~go.raised /\ go.at = hist.events
    /\ widgets.project_tree_check

\* x may stand before its sibling y: no file before a directory, and within
\* the directories and within the files no name before a smaller one, the
\* names compared in lower case.
InOrder(x_name, x_isdir, y_name, y_isdir) ==
    /\ x_isdir \/ ~y_isdir
    /\ x_isdir = y_isdir => ~StrLess(Lower(y_name), Lower(x_name))

TreeInOrder ==
    \A i \in 1..Len(Flatten(file_model.items)) :
        \A j \in (i + 1)..Len(Flatten(file_model.items)) :
            Parent(TreeItem(i).path) = Parent(TreeItem(j).path) =>
                InOrder(TreeItem(i).name, IsDir(fs, TreeItem(i).path),
                        TreeItem(j).name, IsDir(fs, TreeItem(j).path))

RowsInOrder ==
    \A i \in 1..Len(go.rows) :
        \A j \in (i + 1)..Len(go.rows) :
            Parent(go.rows[i].path) = Parent(go.rows[j].path) =>
                InOrder(Basename(go.rows[i].path), IsDir(fs, go.rows[i].path),
                        Basename(go.rows[j].path), IsDir(fs, go.rows[j].path))

\* C12: at every level of the scanned tree and of the rendered diagram the
\* directories stand before the files, and each group is in ascending order
\* of the names compared without regard to case.
C12_SiblingOrder ==
    /\ Scanned => TreeInOrder
    /\ Rendered => RowsInOrder

\* The names of the entries of the root, as listed; of the items of the
\* tree at the root; of the rows of the diagram at the root.
ListedNames == [i \in 1..Len(fs.entries) |-> fs.entries[i].name]
RootItemNames == [i \in 1..Len(file_model.items) |-> file_model.items[i].name]
RootRows == SelectSeq(go.rows, LAMBDA r : Parent(r.path) = current_dir)
RootRowNames == [i \in 1..Len(RootRows) |-> Basename(RootRows[i].path)]

\* Listed as b, A (a directory), a, the entries of the root come out as
\* A, a, b in the tree and in the diagram, and A has entries of its own.
C12_Witness ==
    /\ Scanned /\ Rendered
    /\ ListedNames = <<N_b, N_A, N_a>>
    /\ RootItemNames = <<N_A, N_a, N_b>>
    /\ RootRowNames = <<N_A, N_a, N_b>>
    /\ Len(file_model.items[1].children) = 3

\* The one-to-one maps of 1..n onto itself.
Bijections(n) == { f \in [1..n -> 1..n] : \A i, j \in 1..n : f[i] = f[j] => i = j }

\* The project with the entries of its root listed in another order.
Relisted == { DirNode("ok", [i \in 1..Len(fs.entries) |-> fs.entries[f[i]]]) :
                f \in Bijections(Len(fs.entries)) }

\* The tree a scan builds, and the diagram, under the settings in force.
TreeOf(f) == load_directory(f, file_model, current_dir).model.items

DiagramOf(f) ==
    generate_project_tree(f, current_dir, ~widgets.hidden_check,
                          IF file_model.use_gitignore THEN file_model.gitignore_rules
                          ELSE <<>>).rows

\* C13: the children come out in the same order whatever the order in which
\* the listing of the directory returns the same entries, names that differ
\* in case only included.
C13_ListingOrderIrrelevant ==
    /\ Scanned => \A g \in Relisted : TreeOf(g) = file_model.items
    /\ Rendered => \A g \in Relisted : DiagramOf(g) = go.rows

(***************************************************************************)
(* Claims about add_line_numbers and estimate_tokens                       *)
(***************************************************************************)

\* The lines of the text numbered, and the lines returned for it.
FnLines == SplitLines(fn.text)
FnOutLines == SplitOn(fn.out, "\n")
FnWidth == Len(Digits(Len(FnLines)))

Numbered == fn.op = "add_line_numbers" /\ Len(FnLines) >= 1

\* The number i in a field of FnWidth characters, the blanks before it or
\* after it.
RightAligned(i) == Spaces(FnWidth - Len(Digits(i))) \o Digits(i)
LeftAligned(i) == Digits(i) \o Spaces(FnWidth - Len(Digits(i)))

\* C14 as stated: line i of the n lines returned is the number i with
\* blanks before its digits up to the width of n (right-aligned), then the
\* delimiter " | ", then line i of the content unchanged.
C14_RightAligned ==
    Numbered =>
        /\ Len(FnOutLines) = Len(FnLines)
        /\ \A i \in 1..Len(FnLines) :
              FnOutLines[i] = RightAligned(i) \o <<" ", "|", " ">> \o FnLines[i]

\* C14 amended: line i of the n lines returned is the number i with blanks
\* after its digits up to the width of n (left-aligned), then the delimiter
\* " | ", then line i of the content unchanged; every number field has the
\* same width.
C14_LeftAligned ==
    Numbered =>
        /\ Len(FnOutLines) = Len(FnLines)
        /\ \A i \in 1..Len(FnLines) :
              FnOutLines[i] = LeftAligned(i) \o <<" ", "|", " ">> \o FnLines[i]

\* A content of ten lines or more, not all empty, has been numbered: the
\* numbers below ten are padded.
C14_Witness ==
    /\ Numbered
    /\ Len(FnLines) >= 10
    /\ \E i \in 1..Len(FnLines) : FnLines[i] # <<>>
    /\ FnOutLines[1][2] = " "

(***************************************************************************)
(* Claims about the XML format                                             *)
(***************************************************************************)

\* A text escaped character by character, each character once.
EscapedChar(c) ==
    CASE c = "&" -> <<"&", "a", "m", "p", ";">>
      [] c = "<" -> <<"&", "l", "t", ";">>
      [] c = ">" -> <<"&", "g", "t", ";">>
      [] OTHER   -> <<c>>

RECURSIVE Escaped(_)
Escaped(s) == IF s = <<>> THEN <<>> ELSE EscapedChar(Head(s)) \o Escaped(Tail(s))

\* s begins with the characters of e.
Begins(s, e) == Len(s) >= Len(e) /\ SubSeq(s, 1, Len(e)) = e

\* The entities of a text replaced by the characters they stand for.
RECURSIVE Unescaped(_)
Unescaped(s) ==
    IF s = <<>> THEN <<>>
    ELSE IF Begins(s, EscapedChar("&")) THEN <<"&">> \o Unescaped(SubSeq(s, 6, Len(s)))
    ELSE IF Begins(s, EscapedChar("<")) THEN <<"<">> \o Unescaped(SubSeq(s, 5, Len(s)))
    ELSE IF Begins(s, EscapedChar(">")) THEN <<">">> \o Unescaped(SubSeq(s, 5, Len(s)))
    ELSE <<Head(s)>> \o Unescaped(Tail(s))

NoRawBracket(s) == \A i \in 1..Len(s) : s[i] \notin {"<", ">"}

\* esc is the escaped form of orig.
EscapeOf(esc, orig) ==
    /\ esc = Escaped(orig)
    /\ NoRawBracket(esc)
    /\ Unescaped(esc) = orig

\* The parts of the file element that starts at line h of lines: its path
\* attribute, its type attribute and its content.
TypeMark(line) == FirstAt(line, 1, "\" type=\"")
PathAttr(line) == SubSeq(line, 2, TypeMark(line) - 1)
TypeAttr(line) == SubSeq(line, TypeMark(line) + 1, Len(line) - 1)
ElementContent(lines, h) ==
    BetweenAt(lines, h, FirstAt(lines, h + 1, <<"</file>">>))

\* The lines at which a file element starts.
ElementStarts(lines) ==
    { h \in 1..Len(lines) : lines[h] # <<>> /\ Head(lines[h]) = "<file path=\"" }

\* What generate_output was given to write for the file p.
Extension(p) == LStripChar(SplitextExt(Shown(p)), ".")
Written(p) ==
    IF widgets.line_numbers_check THEN add_line_numbers(Lookup(fs, p).content)
    ELSE Lookup(fs, p).content

\* The element at line h is the one of the file p, each part escaped.
ElementOf(lines, h, p) ==
    /\ TypeMark(lines[h]) # 0
    /\ lines[h][Len(lines[h])] = "\">"
    /\ EscapeOf(PathAttr(lines[h]), Shown(p))
    /\ EscapeOf(TypeAttr(lines[h]), Extension(p))
    /\ EscapeOf(ElementContent(lines, h), Written(p))

XmlCall == go.called /\ ~go.raised /\ widgets.format_combo = "xml"

\* C15: in the XML format every file element is the element of a selected
\* file, and every selected text file has its element, whose path
\* attribute, type attribute and content are the original with each &, <
\* and > replaced once by its entity: no raw < or > is left, and replacing the
\* entities back gives the original.
C15_XmlEscaping ==
    XmlCall =>
        /\ \A h \in ElementStarts(GoLines) :
              \E i \in 1..Len(go.paths) : ElementOf(GoLines, h, go.paths[i])
        /\ \A i \in 1..Len(go.paths) :
              TextFile(go.paths[i]) =>
                  \E h \in ElementStarts(GoLines) : ElementOf(GoLines, h, go.paths[i])

\* An XML call on the file whose name and extension hold &, < and > and
\* whose content holds them too, and on a file whose content holds an entity.
C15_Witness ==
    /\ XmlCall
    /\ Len(go.paths) = 2
    /\ \E i \in 1..2 : go.paths[i] = PathJoin(Root, N_amp)
    /\ \E i \in 1..2 : go.paths[i] = PathJoin(Root, N_a)
    /\ Lookup(fs, PathJoin(Root, N_amp)).content = <<"<", "&", ">">>
    /\ Begins(Lookup(fs, PathJoin(Root, N_a)).content, EscapedChar("<"))
    /\ Cardinality(ElementStarts(GoLines)) = 2

(***************************************************************************)
(* Claims about estimate_tokens                                            *)
(***************************************************************************)

\* estimate_tokens was called while the tokenizer was missing or raised.
FellBack == fn.op = "estimate_tokens" /\ fn.tk \in {"unavailable", "keyerror", "error"}

\* C16: whenever the tokenizer is unavailable or raises, estimate_tokens
\* returns the length of the text divided by 4 and rounded down: 100 for a
\* text of 400 characters, 0 for the empty text.
C16_TokenFallback ==
    FellBack =>
        /\ 4 * fn.count <= CharLen(fn.text)
        /\ CharLen(fn.text) < 4 * fn.count + 4
        /\ CharLen(fn.text) = 400 => fn.count = 100
        /\ fn.text = <<>> => fn.count = 0

\* The fallback has answered for the text of 400 characters after the
\* tokenizer raised.
C16_Witness ==
    /\ FellBack /\ fn.tk = "error"
    /\ CharLen(fn.text) = 400
    /\ fn.count = 100

(***************************************************************************)
(* Claims about pruning                                                    *)
(***************************************************************************)

\* The directories below the directory node at path, at any depth.
RECURSIVE DirsBelow(_, _)
DirsBelow(node, path) ==
    UNION { IF node.entries[i].node.kind = "dir"
            THEN {PathJoin(path, node.entries[i].name)}
                 \cup DirsBelow(node.entries[i].node, PathJoin(path, node.entries[i].name))
            ELSE {} : i \in 1..Len(node.entries) }

\* The directory q is one the scan skips under the settings in force: its
\* name is hidden and the filter is on, or the rules mark it ignored.
SkippedDir(q) ==
    \/ file_model.ignore_hidden /\ Head(Basename(q)) = "."
    \/ file_model.use_gitignore /\ should_ignore(q, file_model.gitignore_rules, TRUE)

\* p lies below the directory q.
Under(q, p) == Begins(p, q \o <<"/">>)

RowPaths == { go.rows[i].path : i \in 1..Len(go.rows) }

\* C17: nothing below a directory that the scan skips is in the scanned
\* tree or in the rendered diagram, whatever the rules say of it.
C17_PrunedBelow ==
    \A q \in DirsBelow(fs, Root) :
        SkippedDir(q) =>
            /\ Scanned => \A p \in ItemPaths(file_model.items) : ~Under(q, p)
            /\ Rendered => \A p \in RowPaths : ~Under(q, p)

\* The rules are *, !a: the directory d is ignored, and the file a in it is
\* not when the rules are evaluated on it (the first rule matches it, the
\* negated rule after it clears it).  The tree and the diagram show the file
\* a of the root and nothing below d.
C17_Witness ==
    /\ Scanned /\ Rendered
    /\ file_model.use_gitignore
    /\ file_model.gitignore_rules = << <<"*">>, <<"!", "a">> >>
    /\ SkippedDir(PathJoin(Root, N_d))
    /\ IsFile(fs, PathJoin(PathJoin(Root, N_d), N_a))
    /\ should_ignore(PathJoin(PathJoin(Root, N_d), N_a), << <<"*">> >>, FALSE)
    /\ ~should_ignore(PathJoin(PathJoin(Root, N_d), N_a), file_model.gitignore_rules, FALSE)
    /\ PathJoin(Root, N_a) \in ItemPaths(file_model.items)
    /\ PathJoin(Root, N_a) \in RowPaths

(***************************************************************************)
(* Claims about the selection                                              *)
(***************************************************************************)

\* The file nodes of the tree.
TreeFiles ==
    { TreeItem(i).path : i \in { k \in 1..Len(Flatten(file_model.items)) :
                                   ~TreeItem(k).isdir /\ IsFile(fs, TreeItem(k).path) } }

HandedPaths == { hist.call.file_paths[i] : i \in 1..Len(hist.call.file_paths) }

\* C18: the paths an update hands to generate_output are file nodes of the
\* tree of the most recent scan; a rescan leaves every node unchecked, and
\* no check state is held for a path that is not in the tree.
C18_SelectionWithinTree ==
    /\ hist.last = "update" /\ hist.call.valid => HandedPaths \subseteq TreeFiles
    /\ hist.last \in {"open", "filter"} => checked = {}
    /\ checked \subseteq ItemPaths(file_model.items)

\* Files were checked and handed to generate_output, and then a change of a
\* filter box has rebuilt the tree, with files in it, none of them checked.
C18_Witness ==
    /\ hist.last = "filter"
    /\ Scanned
    /\ hist.call.valid /\ hist.call.file_paths # <<>>
    /\ TreeFiles # {}
    /\ checked = {}

====
